---- MODULE Spec2Model ----
(***************************************************************************)
(* Model of the simgrid-league results composer.                           *)
(*                                                                         *)
(* The repository holds two copies of the pipeline: src/merge-results.ts   *)
(* and src/unnamed/part_000.  They share the loader, the grouper, the      *)
(* ranker and the top-level run, and differ in the fields the merger sums  *)
(* and in the report layout.  The variable `program` says which copy runs. *)
(*                                                                         *)
(* Strings are sequences of one-character strings, so that length, trim,   *)
(* truncation, padding and collation are computed and not assumed.         *)
(* Numbers are integers; championship points with a fractional part are    *)
(* outside the model.                                                      *)
(*                                                                         *)
(* Objects and arrays live in `heap` and are named by their index, so that *)
(* a copy and an alias are different things.                               *)
(***************************************************************************)
EXTENDS Integers, Sequences, FiniteSets, TLC

VARIABLES
    program,        \* which source file runs
    defaultLocale,  \* the default locale of the process
    dirOk,          \* whether the intake directory can be listed
    files,          \* the intake directory: its entries, in readdir order
    pc,             \* position of mergeAndSortResults
    jsonFiles,      \* readAllJsonFiles: the filtered file list
    fileIdx,        \* readAllJsonFiles: index of the next file of the loop
    allData,        \* readAllJsonFiles: ClassData objects loaded so far
    heap,           \* Standing objects, races arrays, standings arrays
    classMap,       \* mergeAndSortResults: Map carClass -> standings array
    classIdx,       \* index of the next classMap entry of the second loop
    mergedResults,  \* mergeAndSortResults: MergedClassData[]
    discordMessage, \* the formatted report
    resultTxt,      \* result.txt: << >> while absent, else <<its bytes>>
    stdout,         \* console.log lines
    rejection,      \* the error the promise of mergeAndSortResults rejected with
    stderr,         \* console.error: the errors reported
    exitCode        \* the exit status of the process

vars == <<program, defaultLocale, dirOk, files, pc, jsonFiles, fileIdx, allData, heap, classMap,
          classIdx, mergedResults, discordMessage, resultTxt, stdout, rejection,
          stderr, exitCode>>

MainProgram == "merge-results.ts"
PartProgram == "part_000"
Programs == {MainProgram, PartProgram}

----------------------------------------------------------------------------
(* Bounds of the model.                                                    *)

\* directory entries
MaxFiles == 2
\* ClassData records over all the fragments of one directory
MaxClassData == 2
\* distinct class names
NumClasses == 2
\* driver identities of the single-class inputs
NumDrivers == 3
\* standings of the class of a single-class input
MaxStandings == 3

----------------------------------------------------------------------------
(* Strings.                                                                *)

RECURSIVE Rep(_, _)
\* String.prototype.repeat
Rep(s, n) == IF n <= 0 THEN <<>> ELSE s \o Rep(s, n - 1)

\* what String.prototype.trim strips: the WhiteSpace and LineTerminator code
\* points of ECMAScript, those without a spelling written by their code unit
WhiteSpace ==
    {"\t", "\n", "U+000B", "\f", "\r", " ", "U+00A0", "U+1680",
     "U+2000", "U+2001", "U+2002", "U+2003", "U+2004", "U+2005", "U+2006",
     "U+2007", "U+2008", "U+2009", "U+200A", "U+2028", "U+2029", "U+202F",
     "U+205F", "U+3000", "U+FEFF"}

RECURSIVE trimStart(_)
trimStart(s) ==
    IF s # <<>> /\ Head(s) \in WhiteSpace THEN trimStart(Tail(s)) ELSE s

RECURSIVE trimEnd(_)
trimEnd(s) ==
    IF s # <<>> /\ s[Len(s)] \in WhiteSpace
    THEN trimEnd(SubSeq(s, 1, Len(s) - 1))
    ELSE s

\* String.prototype.trim
trim(s) == trimEnd(trimStart(s))

\* String.prototype.padStart(n) with the default filler " "
padStart(s, n) == Rep(<<" ">>, n - Len(s)) \o s

\* String.prototype.padEnd(n) with the default filler " "
padEnd(s, n) == s \o Rep(<<" ">>, n - Len(s))

\* String.prototype.substring(0, end)
substring0(s, end) ==
    IF end <= 0 THEN <<>> ELSE IF end >= Len(s) THEN s ELSE SubSeq(s, 1, end)

\* String.prototype.endsWith
endsWith(s, suffix) ==
    /\ Len(s) >= Len(suffix)
    /\ SubSeq(s, Len(s) - Len(suffix) + 1, Len(s)) = suffix

DigitChars == <<"0", "1", "2", "3", "4", "5", "6", "7", "8", "9">>

RECURSIVE NatToString(_)
NatToString(n) ==
    IF n < 10 THEN <<DigitChars[n + 1]>>
    ELSE NatToString(n \div 10) \o <<DigitChars[(n % 10) + 1]>>

\* Number.prototype.toString of an integer, as in `${standing.position}`
NumberToString(n) == IF n < 0 THEN <<"-">> \o NatToString(-n) ELSE NatToString(n)

\* Number.prototype.toFixed(digits) of an integer
toFixed(n, digits) ==
    NumberToString(n) \o (IF digits = 0 THEN <<>> ELSE <<".">> \o Rep(<<"0">>, digits))

RECURSIVE join(_, _)
\* Array.prototype.join
join(lines, sep) ==
    IF lines = <<>> THEN <<>>
    ELSE IF Len(lines) = 1 THEN lines[1]
    ELSE lines[1] \o sep \o join(Tail(lines), sep)

\* The locales a process is run under here.  localeCompare is called without
\* a locale and takes the collation of the default locale of the process:
\* "en-US" has the root collation on ASCII, "mt-MT" puts upper case first,
\* "tr-TR" has I as the upper case of the dotless i, a letter of its own before
\* i, and "cs-CZ" has ch as one letter after h.
Locales == {"en-US", "mt-MT", "tr-TR", "cs-CZ"}

\* The ASCII characters in the primary order of the root collation:
\* white space, punctuation, symbols, digits, letters.  A letter stands here
\* in lower case; its upper case has the same primary weight.  localeCompare
\* is modelled for strings of these characters and is undefined for others.
CollationOrder ==
    <<"\t", "\n", "U+000B", "\f", "\r", " ",
      "_", "-", ",", ";", ":", "!", "?", ".", "'", "\"", "(", ")", "[", "]",
      "{", "}", "@", "*", "/", "\\", "&", "#", "%",
      "U+0060", "^", "+", "<", "=", ">", "|", "~", "$",
      "0", "1", "2", "3", "4", "5", "6", "7", "8", "9",
      "a", "b", "c", "d", "e", "f", "g", "h", "i", "j", "k", "l", "m",
      "n", "o", "p", "q", "r", "s", "t", "u", "v", "w", "x", "y", "z">>

UpperCase ==
    <<"A", "B", "C", "D", "E", "F", "G", "H", "I", "J", "K", "L", "M",
      "N", "O", "P", "Q", "R", "S", "T", "U", "V", "W", "X", "Y", "Z">>

LowerCase ==
    <<"a", "b", "c", "d", "e", "f", "g", "h", "i", "j", "k", "l", "m",
      "n", "o", "p", "q", "r", "s", "t", "u", "v", "w", "x", "y", "z">>

\* upper case letter |-> its lower case
ToLowerCase ==
    [c \in {UpperCase[i] : i \in 1..Len(UpperCase)} |->
        LowerCase[CHOOSE i \in 1..Len(UpperCase) : UpperCase[i] = c]]

\* character |-> its place in the collation order
CollationIndex ==
    [c \in {CollationOrder[i] : i \in 1..Len(CollationOrder)} |->
        CHOOSE i \in 1..Len(CollationOrder) : CollationOrder[i] = c]

IsUpperCase(c) == c \in DOMAIN ToLowerCase

\* the lower case of a letter, any other character itself
CaseFolded(c) == IF IsUpperCase(c) THEN ToLowerCase[c] ELSE c

\* primary weight: twice the place in the collation order, case ignored, which
\* leaves room for a letter a locale puts before or after another; under
\* "tr-TR" I is the dotless i, just before i
PrimaryWeight(locale, c) ==
    IF locale = "tr-TR" /\ c = "I" THEN 2 * CollationIndex["i"] - 1
    ELSE 2 * CollationIndex[CaseFolded(c)]

IsLowerCase(c) == \E i \in 1..Len(LowerCase) : LowerCase[i] = c

\* tertiary weight: lower case before upper case, and under "mt-MT" upper case
\* before lower case
TertiaryWeight(locale, c) ==
    IF locale = "mt-MT"
    THEN (IF IsLowerCase(c) THEN 1 ELSE 0)
    ELSE (IF IsUpperCase(c) THEN 1 ELSE 0)

\* under "cs-CZ" c and h together, in either case, are the one letter ch
isContraction(locale, s, k) ==
    /\ locale = "cs-CZ"
    /\ k < Len(s)
    /\ s[k] \in {"c", "C"}
    /\ s[k + 1] \in {"h", "H"}

RECURSIVE collationElements(_, _, _)
\* the collation elements of a string from index k on: for each character, or
\* each pair that is one letter, its primary and its tertiary weight.  The
\* letter ch comes just after h, and ch, cH, Ch, CH are in this order.
collationElements(locale, s, k) ==
    IF k > Len(s) THEN <<>>
    ELSE IF isContraction(locale, s, k)
    THEN <<[primary  |-> 2 * CollationIndex["h"] + 1,
            tertiary |-> (IF s[k] = "C" THEN 2 ELSE 0)
                         + (IF s[k + 1] = "H" THEN 1 ELSE 0)]>>
         \o collationElements(locale, s, k + 2)
    ELSE <<[primary  |-> PrimaryWeight(locale, s[k]),
            tertiary |-> TertiaryWeight(locale, s[k])]>>
         \o collationElements(locale, s, k + 1)

RECURSIVE compareWeights(_, _)
\* lexicographic comparison of two sequences of collation weights
compareWeights(a, b) ==
    IF a = <<>> /\ b = <<>> THEN 0
    ELSE IF a = <<>> THEN -1
    ELSE IF b = <<>> THEN 1
    ELSE IF Head(a) < Head(b) THEN -1
    ELSE IF Head(a) > Head(b) THEN 1
    ELSE compareWeights(Tail(a), Tail(b))

\* the comparison of two strings under the collation of a locale: by the
\* primary weights, and by the tertiary weights where these are the same
collate(locale, a, b) ==
    LET ea == collationElements(locale, a, 1)
        eb == collationElements(locale, b, 1)
        primary == compareWeights([i \in 1..Len(ea) |-> ea[i].primary],
                                  [i \in 1..Len(eb) |-> eb[i].primary])
    IN  IF primary # 0 THEN primary
        ELSE compareWeights([i \in 1..Len(ea) |-> ea[i].tertiary],
                            [i \in 1..Len(eb) |-> eb[i].tertiary])

\* String.prototype.localeCompare, called without a locale
localeCompare(a, b) == collate(defaultLocale, a, b)

----------------------------------------------------------------------------
(* The heap.                                                               *)
(*   heap.objs    Standing and MergedStanding objects; the field races of  *)
(*                an object is an index into heap.races                    *)
(*   heap.races   Race[] arrays (a Race is never written, so it is a value)*)
(*   heap.arrays  Standing[] and MergedStanding[] arrays: sequences of     *)
(*                indexes into heap.objs                                   *)
(* A ClassData or MergedClassData object is never written after it is      *)
(* made; it is the record [carClass, standings], standings an index into   *)
(* heap.arrays.                                                            *)

EmptyHeap == [objs |-> <<>>, races |-> <<>>, arrays |-> <<>>]

\* the Standing a reference denotes, its races read through
StandingValue(h, ref) == [h.objs[ref] EXCEPT !.races = h.races[@]]

\* the Standing[] a reference denotes
StandingsValue(h, aref) ==
    [i \in 1..Len(h.arrays[aref]) |-> StandingValue(h, h.arrays[aref][i])]

\* the ClassData (or MergedClassData) an object denotes
ClassDataValue(h, cd) ==
    [carClass |-> cd.carClass, standings |-> StandingsValue(h, cd.standings)]

RECURSIVE parseStandings(_, _)
\* JSON.parse of the standings of one ClassData: a fresh object and a fresh
\* races array for each
parseStandings(h, vals) ==
    IF vals = <<>> THEN [heap |-> h, ret |-> <<>>]
    ELSE LET v    == Head(vals)
             h1   == [h EXCEPT !.races = Append(@, v.races)]
             h2   == [h1 EXCEPT !.objs = Append(@, [v EXCEPT !.races = Len(h1.races)])]
             rest == parseStandings(h2, Tail(vals))
         IN  [heap |-> rest.heap, ret |-> <<Len(h2.objs)>> \o rest.ret]

RECURSIVE JSONparse(_, _)
\* JSON.parse of the content of a fragment: ClassData[]
JSONparse(h, data) ==
    IF data = <<>> THEN [heap |-> h, ret |-> <<>>]
    ELSE LET s    == parseStandings(h, Head(data).standings)
             h1   == [s.heap EXCEPT !.arrays = Append(@, s.ret)]
             cd   == [carClass |-> Head(data).carClass, standings |-> Len(h1.arrays)]
             rest == JSONparse(h1, Tail(data))
         IN  [heap |-> rest.heap, ret |-> <<cd>> \o rest.ret]

\* Map.prototype.get on a Map kept as its entries in insertion order;
\* 0 stands for undefined (references start at 1)
MapGet(map, key) ==
    LET I == {i \in 1..Len(map) : map[i].key = key}
    IN  IF I = {} THEN 0 ELSE map[CHOOSE i \in I : TRUE].value

\* A sort that is not stable: entries the comparator holds equal come out in
\* reverse order.
UnstableSort(seq, c) ==
    LET n == Len(seq)
        rank(i) == 1 + Cardinality({j \in 1..n :
                           \/ c[j][i] < 0
                           \/ c[j][i] = 0 /\ j > i})
    IN  [k \in 1..n |-> seq[CHOOSE i \in 1..n : rank(i) = k]]

\* Array.prototype.sort, which is stable.  c[i][j] is what the comparator
\* returns for (seq[i], seq[j]); the comparators of the program are consistent.
StableSort(seq, c) ==
    LET n == Len(seq)
        rank(i) == 1 + Cardinality({j \in 1..n :
                           \/ c[j][i] < 0
                           \/ c[j][i] = 0 /\ j < i})
    IN  [k \in 1..n |-> seq[CHOOSE i \in 1..n : rank(i) = k]]

----------------------------------------------------------------------------
(* Class Grouper: mergeAndSortResults, first loop.                         *)

\* The grouper keeping the fragment's own array in the map, no copy made.
aliasStandings(h, aref) == [heap |-> h, ret |-> aref]

\* [...classData.standings]: a new array with the same elements
spreadStandings(h, aref) ==
    [heap |-> [h EXCEPT !.arrays = Append(@, h.arrays[aref])],
     ret  |-> Len(h.arrays) + 1]

\* existing.push(...classData.standings)
pushStandings(h, existing, aref) ==
    [h EXCEPT !.arrays[existing] = @ \o h.arrays[aref]]

RECURSIVE groupByClass(_, _, _)
groupByClass(h, map, data) ==
    IF data = <<>> THEN [heap |-> h, classMap |-> map]
    ELSE LET classData == Head(data)
             existing  == MapGet(map, classData.carClass)
         IN  IF existing # 0
             THEN groupByClass(pushStandings(h, existing, classData.standings),
                               map, Tail(data))
             ELSE LET copy == spreadStandings(h, classData.standings)
                  IN  groupByClass(copy.heap,
                                   Append(map, [key   |-> classData.carClass,
                                                value |-> copy.ret]),
                                   Tail(data))

----------------------------------------------------------------------------
(* Driver Merger.                                                          *)

\* [...standing.races]: a new array with the same elements
spreadRaces(h, rref) ==
    [heap |-> [h EXCEPT !.races = Append(@, h.races[rref])],
     ret  |-> Len(h.races) + 1]

\* the else branch: a new MergedStanding seeded from the first occurrence
seedMergedStanding(h, standing) ==
    LET copy == spreadRaces(h, standing.races)
        merged == [position              |-> 0,
                   id                    |-> standing.id,
                   carNum                |-> standing.carNum,
                   car                   |-> standing.car,
                   championshipPoints    |-> standing.championshipPoints,
                   championshipPenalties |-> standing.championshipPenalties,
                   championshipScore     |-> standing.championshipScore,
                   pointsAdjustment      |-> standing.pointsAdjustment,
                   actualPoints          |-> standing.actualPoints,
                   races                 |-> copy.ret]
    IN  [heap |-> [copy.heap EXCEPT !.objs = Append(@, merged)],
         ret  |-> Len(copy.heap.objs) + 1]

\* The later races put in front of the earlier ones.
unshiftRaces(h, existing, standing) ==
    [h EXCEPT !.races[h.objs[existing].races] = h.races[standing.races] \o @]

\* existing.races.push(...standing.races)
pushRaces(h, existing, standing) ==
    [h EXCEPT !.races[h.objs[existing].races] = @ \o h.races[standing.races]]

\* The fold with the score left at the first entry's value.
foldIntoExisting_scoreKept(h, existing, standing) ==
    pushRaces([h EXCEPT
        !.objs[existing].championshipPoints    = @ + standing.championshipPoints,
        !.objs[existing].championshipPenalties = @ + standing.championshipPenalties,
        !.objs[existing].pointsAdjustment      = @ + standing.pointsAdjustment,
        !.objs[existing].actualPoints          = @ + standing.actualPoints],
        existing, standing)

\* the if branch of src/merge-results.ts: five fields summed
foldIntoExisting(h, existing, standing) ==
    pushRaces([h EXCEPT
        !.objs[existing].championshipPoints    = @ + standing.championshipPoints,
        !.objs[existing].championshipPenalties = @ + standing.championshipPenalties,
        !.objs[existing].championshipScore     = @ + standing.championshipScore,
        !.objs[existing].pointsAdjustment      = @ + standing.pointsAdjustment,
        !.objs[existing].actualPoints          = @ + standing.actualPoints],
        existing, standing)

\* the if branch of src/unnamed/part_000: three fields summed
foldIntoExisting_part000(h, existing, standing) ==
    pushRaces([h EXCEPT
        !.objs[existing].championshipPoints = @ + standing.championshipPoints,
        !.objs[existing].championshipScore  = @ + standing.championshipScore,
        !.objs[existing].actualPoints       = @ + standing.actualPoints],
        existing, standing)

RECURSIVE mergeLoop(_, _, _, _)
\* the loop of mergeStandingsByDriver over the elements of `standings`
mergeLoop(prog, h, driverMap, standings) ==
    IF standings = <<>> THEN [heap |-> h, driverMap |-> driverMap]
    ELSE LET standing == h.objs[Head(standings)]
             existing == MapGet(driverMap, standing.id)
         IN  IF existing # 0
             THEN mergeLoop(prog,
                            IF prog = MainProgram
                            THEN foldIntoExisting(h, existing, standing)
                            ELSE foldIntoExisting_part000(h, existing, standing),
                            driverMap, Tail(standings))
             ELSE LET seed == seedMergedStanding(h, standing)
                  IN  mergeLoop(prog, seed.heap,
                                Append(driverMap, [key   |-> standing.id,
                                                   value |-> seed.ret]),
                                Tail(standings))

\* Array.from(driverMap.values())
mapValues(driverMap) == [i \in 1..Len(driverMap) |-> driverMap[i].value]

mergeStandingsByDriver(prog, h, aref) ==
    LET r == mergeLoop(prog, h, <<>>, h.arrays[aref])
    IN  [heap |-> [r.heap EXCEPT !.arrays = Append(@, mapValues(r.driverMap))],
         ret  |-> Len(r.heap.arrays) + 1]

----------------------------------------------------------------------------
(* Ranker.                                                                 *)

\* The comparator with the tie-break ascending.
compareStandings_scoreAscending(a, b) ==
    IF b.championshipPoints # a.championshipPoints
    THEN b.championshipPoints - a.championshipPoints
    ELSE a.championshipScore - b.championshipScore

\* the comparator of sortStandingsByPoints
compareStandings(a, b) ==
    IF b.championshipPoints # a.championshipPoints
    THEN b.championshipPoints - a.championshipPoints
    ELSE b.championshipScore - a.championshipScore

\* standings.sort(...): sorts the array in place and returns it
sortStandingsByPoints(h, aref) ==
    LET arr == h.arrays[aref]
        c   == [i \in 1..Len(arr) |-> [j \in 1..Len(arr) |->
                   compareStandings(h.objs[arr[i]], h.objs[arr[j]])]]
    IN  [heap |-> [h EXCEPT !.arrays[aref] = StableSort(arr, c)],
         ret  |-> aref]

\* The callback numbering from 0.
withIndexAsPosition(standing, index) == [standing EXCEPT !.position = index]

\* the callback of assignPositions; index counts from 0
withPosition(standing, index) == [standing EXCEPT !.position = index + 1]

\* standings.map(...): a new array of new objects
assignPositions(h, aref) ==
    LET arr  == h.arrays[aref]
        made == [i \in 1..Len(arr) |-> withPosition(h.objs[arr[i]], i - 1)]
        refs == [i \in 1..Len(arr) |-> Len(h.objs) + i]
    IN  [heap |-> [h EXCEPT !.objs = @ \o made, !.arrays = Append(@, refs)],
         ret  |-> Len(h.arrays) + 1]

----------------------------------------------------------------------------
(* Report Formatter of src/merge-results.ts.                               *)
(* A character the module cannot spell is written by its code unit, as in *)
(* "U+00F0" or "U+0060" (the backquote of the code fence).                *)

POS_WIDTH == 4
DRIVER_WIDTH == 15
CAR_WIDTH == 13
POINTS_WIDTH == 3

truncateText(text, maxLength) ==
    IF Len(text) <= maxLength THEN text
    ELSE substring0(text, maxLength - 1) \o <<".">>

\* the body of the inner loop: one row of the table
formatRow(standing) ==
    LET pos    == padStart(NumberToString(standing.position) \o <<".">>, POS_WIDTH)
        driver == padEnd(truncateText(trim(standing.id), DRIVER_WIDTH), DRIVER_WIDTH)
        car    == padEnd(truncateText(trim(standing.car), CAR_WIDTH), CAR_WIDTH)
        points == padStart(toFixed(standing.championshipPoints, 0), POINTS_WIDTH)
    IN  pos \o <<" ">> \o driver \o <<" ", "|", " ">> \o car \o <<" ", "|", " ">> \o points

\* the lines pushed for one class
formatClass(classData) ==
    <<(<<"*", "*">> \o classData.carClass \o <<"*", "*">>), <<"U+0060", "U+0060", "U+0060">>>>
    \o [i \in 1..Len(classData.standings) |-> formatRow(classData.standings[i])]
    \o <<<<"U+0060", "U+0060", "U+0060", "\n">>>>

RECURSIVE formatClasses(_)
formatClasses(results) ==
    IF results = <<>> THEN <<>>
    ELSE formatClass(Head(results)) \o formatClasses(Tail(results))

\* results: the MergedClassData[] read through the heap
formatResultsForDiscord(results) ==
    join(<<<<"U+00F0", "U+0178", " ", "*", "*", "S", "t", "a", "n", "d", "i", "n", "g", "s", "*", "*", "\n">>>> \o formatClasses(results), <<"\n">>)

----------------------------------------------------------------------------
(* Report Formatter of src/unnamed/part_000.                               *)

POS_WIDTH_part000 == 4
DRIVER_WIDTH_part000 == 30
CAR_WIDTH_part000 == 25
POINTS_WIDTH_part000 == 6

formatStandingPosition(position) ==
    padStart(NumberToString(position) \o <<".">>, 4)

truncateAndPad(text, maxWidth) ==
    IF Len(text) > maxWidth
    THEN substring0(text, maxWidth - 3) \o <<".", ".", ".">>
    ELSE padEnd(text, maxWidth)

Bar == <<" ", "|", " ">>

\* the body of the inner loop: one row of the table
formatRow_part000(standing) ==
    LET position == formatStandingPosition(standing.position)
        driver   == truncateAndPad(trim(standing.id), DRIVER_WIDTH_part000)
        car      == truncateAndPad(trim(standing.car), CAR_WIDTH_part000)
        points   == truncateAndPad(toFixed(standing.championshipPoints, 1),
                                   POINTS_WIDTH_part000)
    IN  position \o Bar \o driver \o Bar \o car \o Bar \o points

\* the column titles and the rule under them
tableHead_part000 ==
    <<truncateAndPad(<<"P", "o", "s">>, POS_WIDTH_part000) \o Bar
        \o truncateAndPad(<<"D", "r", "i", "v", "e", "r">>, DRIVER_WIDTH_part000) \o Bar
        \o truncateAndPad(<<"C", "a", "r">>, CAR_WIDTH_part000) \o Bar
        \o truncateAndPad(<<"P", "o", "i", "n", "t", "s">>, POINTS_WIDTH_part000),
      Rep(<<"-">>, POS_WIDTH_part000) \o Bar
        \o Rep(<<"-">>, DRIVER_WIDTH_part000) \o Bar
        \o Rep(<<"-">>, CAR_WIDTH_part000) \o Bar
        \o Rep(<<"-">>, POINTS_WIDTH_part000)>>

\* the lines pushed for one class
formatClass_part000(classData) ==
    <<(<<"#", "#", " ">> \o classData.carClass \o <<"\n">>), <<"U+0060", "U+0060", "U+0060">>>>
    \o tableHead_part000
    \o [i \in 1..Len(classData.standings) |-> formatRow_part000(classData.standings[i])]
    \o <<<<"U+0060", "U+0060", "U+0060", "\n">>>>

RECURSIVE formatClasses_part000(_)
formatClasses_part000(results) ==
    IF results = <<>> THEN <<>>
    ELSE formatClass_part000(Head(results)) \o formatClasses_part000(Tail(results))

\* results: the MergedClassData[] read through the heap
formatResultsForDiscord_part000(results) ==
    join(<<<<"#", " ", "U+D83C", "U+DFC1", " ", "C", "h", "a", "m", "p", "i", "o", "n", "s", "h", "i", "p", " ", "S", "t", "a", "n", "d", "i", "n", "g", "s", "\n">>>> \o formatClasses_part000(results), <<"\n">>)

----------------------------------------------------------------------------
(* The inputs: what the intake directory may hold.                         *)

\* a RaceResult; penaltyPoints is << >> for null and <<n>> for the number n
Race(n) ==
    [position      |-> n,
     pointsGiven   |-> 30 - 5 * n,
     penaltyPoints |-> IF n = 2 THEN <<>> ELSE <<n - 1>>,
     pointsTotal   |-> 30 - 5 * n - (IF n = 2 THEN 0 ELSE n - 1),
     dnf           |-> n = 3,
     dns           |-> FALSE]

ClassName(c) ==
    CASE c = 1 -> <<"G", "T", "4">>
      [] c = 2 -> <<"G", "T", "3">>
      [] c = 3 -> <<"g", "t", "4">>
      [] OTHER -> <<"G", "T">> \o NumberToString(c)

ClassNames == {ClassName(c) : c \in 1..NumClasses}

\* Two standings with names and points on both sides of the column widths.
Alice ==
    [position |-> 1, id |-> <<"A", "l", "i", "c", "e">>, carNum |-> 7, car |-> <<"P", "o", "r", "s", "c", "h", "e">>,
     championshipPoints |-> 10, championshipPenalties |-> 1,
     championshipScore |-> 5, pointsAdjustment |-> 2, actualPoints |-> 9,
     races |-> <<Race(1)>>]

Bob ==
    [position |-> 1,
     id |-> <<" ", "B">> \o Rep(<<"o">>, 29) \o <<"b", " ">>,
     carNum |-> 42,
     car |-> <<"M">> \o Rep(<<"c">>, 25),
     championshipPoints |-> 1000, championshipPenalties |-> 3,
     championshipScore |-> 9, pointsAdjustment |-> -1, actualPoints |-> 997,
     races |-> <<Race(2), Race(3)>>]

\* the standings lists of the fragments of a structured directory
PoolLists == {<<Alice>>, <<Bob, Alice>>}

ClassDatas ==
    {[carClass |-> c, standings |-> l] : c \in ClassNames, l \in PoolLists}

\* pairs of class names that the locales do not all order alike, in both
\* discovery orders: by case, by the letter ch and by the letter I
NamesByLocale ==
    LET pairs == {<<<<"G", "T", "4">>, <<"g", "t", "4">>>>,
                  <<<<"C", "u", "p">>, <<"C", "h", "a", "l", "l", "e", "n", "g", "e">>>>,
                  <<<<"I", "b">>, <<"i", "a">>>>}
    IN  pairs \cup {<<p[2], p[1]>> : p \in pairs}

JsonName == <<"a", ".", "j", "s", "o", "n">>
OtherName == <<"a", ".", "t", "x", "t">>

\* a directory entry: its name, whether readFile succeeds, whether JSON.parse
\* succeeds, and what it parses to
JsonFile(data) == [name |-> JsonName, readable |-> TRUE, parses |-> TRUE, data |-> data]
UnreadableFile == [name |-> JsonName, readable |-> FALSE, parses |-> FALSE, data |-> <<>>]
MalformedFile  == [name |-> JsonName, readable |-> TRUE, parses |-> FALSE, data |-> <<>>]
OtherFile      == [name |-> OtherName, readable |-> TRUE, parses |-> FALSE, data |-> <<>>]

\* the kinds of directory entry: <<kind, k>>, with k the number of ClassData
\* records a fragment parses to, and 0 for the kinds that hold none
EntryKinds ==
    {<<"other", 0>>, <<"unreadable", 0>>, <<"malformed", 0>>}
    \cup {<<"fragment", k>> : k \in 0..MaxClassData}

RecordsOf(kind) == kind[2]

RECURSIVE RecordsBefore(_, _)
\* the ClassData records held by the entries 1..i-1 of a directory of these kinds
RecordsBefore(kinds, i) ==
    IF i <= 1 THEN 0 ELSE RecordsBefore(kinds, i - 1) + RecordsOf(kinds[i - 1])

\* the directory whose entries have these kinds and whose fragments hold, in
\* order, the ClassData records cds
Directory(kinds, cds) ==
    [i \in 1..Len(kinds) |->
        CASE kinds[i][1] = "other"      -> OtherFile
          [] kinds[i][1] = "unreadable" -> UnreadableFile
          [] kinds[i][1] = "malformed"  -> MalformedFile
          [] OTHER -> JsonFile(SubSeq(cds, RecordsBefore(kinds, i) + 1,
                                      RecordsBefore(kinds, i + 1)))]

\* the (championshipPoints, championshipScore) of a single-class standing
PointsAndScores == {<<0, 0>>, <<0, 1>>, <<1, 0>>}

RaceLists == <<<<Race(1), Race(2)>>, <<Race(3)>>, <<Race(1)>>, <<>>>>

DriverId(d) == <<"D">> \o NumberToString(d)

\* the k-th standing of a single-class input: driver d, p points, score s
SingleClassStanding(k, d, p, s) ==
    [position |-> k, id |-> DriverId(d), carNum |-> 10 * d + k,
     car |-> <<"C", "a", "r">> \o NumberToString(k),
     championshipPoints |-> p, championshipPenalties |-> k,
     championshipScore |-> s, pointsAdjustment |-> k - 2, actualPoints |-> p - k,
     races |-> RaceLists[((k - 1) % Len(RaceLists)) + 1]]

\* the drivers are numbered in the order of their first entries; the merge
\* and the ranking compare driver ids for equality only, so every other
\* numbering is one of these with the drivers renamed
InOrderOfFirstEntry(choices) ==
    \A k \in 1..Len(choices) :
        \A d \in 1..(choices[k][1] - 1) :
            \E m \in 1..(k - 1) : choices[m][1] = d

\* one fragment holding these classes, one standing each
ClassNamesDirectory(names) ==
    <<JsonFile([k \in 1..Len(names) |->
                   [carClass |-> names[k], standings |-> <<Alice>>]])>>

\* one fragment holding one class, the standings given by their choices
SingleClassDirectory(choices) ==
    <<JsonFile(<<[carClass  |-> ClassName(1),
                  standings |-> [k \in 1..Len(choices) |->
                      SingleClassStanding(k, choices[k][1], choices[k][2][1],
                                          choices[k][2][2])]]>>)>>

----------------------------------------------------------------------------
(* The run: mergeAndSortResults and its catch handler.                     *)

Init ==
    /\ program \in Programs
    /\ defaultLocale \in Locales
    /\ \/ /\ dirOk = FALSE
          /\ files = <<>>
       \/ /\ dirOk = TRUE
          /\ \E n \in 0..MaxFiles :
               \E kinds \in [1..n -> EntryKinds] :
                  /\ RecordsBefore(kinds, n + 1) <= MaxClassData
                  /\ \E cds \in [1..RecordsBefore(kinds, n + 1) -> ClassDatas] :
                        files = Directory(kinds, cds)
       \/ /\ dirOk = TRUE
          /\ \E n \in 0..MaxStandings :
               \E choices \in [1..n -> (1..NumDrivers) \X PointsAndScores] :
                  /\ InOrderOfFirstEntry(choices)
                  /\ files = SingleClassDirectory(choices)
       \/ /\ dirOk = TRUE
          /\ \E names \in NamesByLocale : files = ClassNamesDirectory(names)
    /\ pc = "readdir"
    /\ jsonFiles = <<>>
    /\ fileIdx = 1
    /\ allData = <<>>
    /\ heap = EmptyHeap
    /\ classMap = <<>>
    /\ classIdx = 1
    /\ mergedResults = <<>>
    /\ discordMessage = <<>>
    /\ resultTxt = <<>>
    /\ stdout = <<>>
    /\ rejection = "none"
    /\ stderr = <<>>
    /\ exitCode = 0

\* a rejected promise reaches the catch handler of the last line
Rejected(error) ==
    /\ pc' = "rejected"
    /\ rejection' = error
    /\ UNCHANGED <<program, defaultLocale, dirOk, files, jsonFiles, fileIdx, allData, heap, classMap,
                   classIdx, mergedResults, discordMessage, resultTxt, stdout, stderr,
                   exitCode>>

\* readAllJsonFiles: readdir and the filter on the extension
Readdir ==
    /\ pc = "readdir"
    /\ IF dirOk
       THEN /\ jsonFiles' = SelectSeq(files, LAMBDA f : endsWith(f.name, <<".", "j", "s", "o", "n">>))
            /\ allData' = <<>>
            /\ fileIdx' = 1
            /\ pc' = "readFile"
            /\ UNCHANGED <<program, defaultLocale, dirOk, files, heap, classMap, classIdx,
                           mergedResults, discordMessage, resultTxt, stdout,
                           rejection, stderr, exitCode>>
       ELSE Rejected("readdir")

\* A loop that catches the error and goes on with the next file.
ReadFileSkips(error) ==
    /\ fileIdx' = fileIdx + 1
    /\ UNCHANGED <<program, defaultLocale, dirOk, files, pc, jsonFiles, allData, heap, classMap,
                   classIdx, mergedResults, discordMessage, resultTxt, stdout,
                   rejection, stderr, exitCode>>

\* readFile or JSON.parse throws: the loop is left, nothing is caught inside
ReadFileThrows(error) == Rejected(error)

\* readAllJsonFiles: one turn of the loop over jsonFiles
ReadFile ==
    /\ pc = "readFile"
    /\ fileIdx <= Len(jsonFiles)
    /\ LET file == jsonFiles[fileIdx]
       IN  IF ~file.readable THEN ReadFileThrows("readFile")
           ELSE IF ~file.parses THEN ReadFileThrows("JSON.parse")
           ELSE LET data == JSONparse(heap, file.data)
                IN  /\ heap' = data.heap
                    /\ allData' = allData \o data.ret
                    /\ fileIdx' = fileIdx + 1
                    /\ UNCHANGED <<program, defaultLocale, dirOk, files, pc, jsonFiles, classMap,
                                   classIdx, mergedResults, discordMessage,
                                   resultTxt, stdout, rejection, stderr, exitCode>>

\* readAllJsonFiles returns; mergeAndSortResults, the loop over allClassData
GroupByClass ==
    /\ pc = "readFile"
    /\ fileIdx > Len(jsonFiles)
    /\ LET g == groupByClass(heap, <<>>, allData)
       IN  /\ heap' = g.heap
           /\ classMap' = g.classMap
    /\ classIdx' = 1
    /\ mergedResults' = <<>>
    /\ pc' = "merge"
    /\ UNCHANGED <<program, defaultLocale, dirOk, files, jsonFiles, fileIdx, allData,
                   discordMessage, resultTxt, stdout, rejection, stderr, exitCode>>

\* mergeAndSortResults: one turn of the loop over classMap.entries()
MergeClass ==
    /\ pc = "merge"
    /\ classIdx <= Len(classMap)
    /\ LET entry    == classMap[classIdx]
           merged   == mergeStandingsByDriver(program, heap, entry.value)
           sorted   == sortStandingsByPoints(merged.heap, merged.ret)
           numbered == assignPositions(sorted.heap, sorted.ret)
       IN  /\ heap' = numbered.heap
           /\ mergedResults' = Append(mergedResults,
                                      [carClass |-> entry.key, standings |-> numbered.ret])
    /\ classIdx' = classIdx + 1
    /\ UNCHANGED <<program, defaultLocale, dirOk, files, pc, jsonFiles, fileIdx, allData, classMap,
                   discordMessage, resultTxt, stdout, rejection, stderr, exitCode>>

\* The classes left in discovery order.
unsortedClasses(results) == results

\* mergedResults.sort((a, b) => a.carClass.localeCompare(b.carClass))
sortByClass(results) ==
    StableSort(results,
               [i \in 1..Len(results) |-> [j \in 1..Len(results) |->
                   localeCompare(results[i].carClass, results[j].carClass)]])

\* formatResultsForDiscord of the program that runs
formatReport(prog, h, results) ==
    LET values == [i \in 1..Len(results) |-> ClassDataValue(h, results[i])]
    IN  IF prog = MainProgram THEN formatResultsForDiscord(values)
        ELSE formatResultsForDiscord_part000(values)

\* mergeAndSortResults: the classes sorted and the report formatted
FormatReport ==
    /\ pc = "merge"
    /\ classIdx > Len(classMap)
    /\ mergedResults' = sortByClass(mergedResults)
    /\ discordMessage' = formatReport(program, heap, sortByClass(mergedResults))
    /\ pc' = "writeFile"
    /\ UNCHANGED <<program, defaultLocale, dirOk, files, jsonFiles, fileIdx, allData, heap, classMap,
                   classIdx, resultTxt, stdout, rejection, stderr, exitCode>>

HexDigits == <<"0", "1", "2", "3", "4", "5", "6", "7",
               "8", "9", "A", "B", "C", "D", "E", "F">>

\* how a code unit is written when the character itself is not: U+ and the
\* four hexadecimal digits of its value
UnitName(n) ==
    "U+" \o HexDigits[(n \div 4096) + 1] \o HexDigits[((n \div 256) % 16) + 1]
         \o HexDigits[((n \div 16) % 16) + 1] \o HexDigits[(n % 16) + 1]

\* how a byte above 0x7F is written: 0x and its two hexadecimal digits
ByteName(b) == "0x" \o HexDigits[(b \div 16) + 1] \o HexDigits[(b % 16) + 1]

\* UnitsWithDigit[p][d]: the names of the code units, all of U+0000 to U+FFFF,
\* whose p-th hexadecimal digit is d
UnitsWithDigit ==
    [p \in 1..4 |-> [d \in 0..15 |->
        {UnitName(a * 16^(5 - p) + d * 16^(4 - p) + r) :
            a \in 0..(16^(p - 1) - 1), r \in 0..(16^(4 - p) - 1)}]]

\* the value of a code unit written by its name, read digit by digit
codeUnit(c) ==
    LET digit(p) == CHOOSE d \in 0..15 : c \in UnitsWithDigit[p][d]
    IN  4096 * digit(1) + 256 * digit(2) + 16 * digit(3) + digit(4)

\* the code units up to U+007F, written as characters or by name
Ascii ==
    {CollationOrder[i] : i \in 1..Len(CollationOrder)}
        \cup {UpperCase[i] : i \in 1..Len(UpperCase)}
        \cup {UnitName(n) : n \in 0..127}

\* the UTF-8 bytes of a code point above U+007F: two bytes up to U+07FF, three
\* up to U+FFFF, four above
codePointBytes(n) ==
    LET bytes == IF n < 2048
                 THEN <<192 + (n \div 64), 128 + (n % 64)>>
                 ELSE IF n < 65536
                 THEN <<224 + (n \div 4096), 128 + ((n \div 64) % 64), 128 + (n % 64)>>
                 ELSE <<240 + (n \div 262144), 128 + ((n \div 4096) % 64),
                        128 + ((n \div 64) % 64), 128 + (n % 64)>>
    IN  [i \in 1..Len(bytes) |-> ByteName(bytes[i])]

\* U+D800 to U+DBFF and U+DC00 to U+DFFF
isHighSurrogate(n) == 55296 <= n /\ n <= 56319
isLowSurrogate(n) == 56320 <= n /\ n <= 57343

\* U+FFFD, written for a surrogate without its other half
ReplacementCharacter == 65533

RECURSIVE utf8(_)
\* the bytes writeFile(path, text, "utf-8") hands to the file: the text up to
\* its first unit above U+007F as it is (such a unit is one byte, written as
\* the unit is), then the bytes of that unit, a surrogate pair giving the four
\* bytes of its code point, then the rest.  A unit above U+007F is written
\* by its name; utf8 is not defined on any other character outside Ascii.
utf8(text) ==
    LET above == {k \in 1..Len(text) : text[k] \notin Ascii}
    IN  IF above = {} THEN text
        ELSE LET k == CHOOSE i \in above : \A j \in above : i <= j
                 u == codeUnit(text[k])
                 paired == /\ isHighSurrogate(u)
                           /\ k < Len(text)
                           /\ text[k + 1] \notin Ascii
                           /\ isLowSurrogate(codeUnit(text[k + 1]))
                 bytes == IF paired
                          THEN codePointBytes(65536 + (u - 55296) * 1024
                                                 + (codeUnit(text[k + 1]) - 56320))
                          ELSE IF isHighSurrogate(u) \/ isLowSurrogate(u)
                          THEN codePointBytes(ReplacementCharacter)
                          ELSE codePointBytes(u)
             IN  SubSeq(text, 1, k - 1) \o bytes
                 \o utf8(SubSeq(text, (IF paired THEN k + 2 ELSE k + 1), Len(text)))

\* what a failing writeFile leaves of result.txt: nothing when the file could
\* not be opened, else the bytes written before the error, which stops at any
\* byte (inside a character too), from before the first to after the last
FailedWrites(text) ==
    LET bytes == utf8(text)
    IN  {<<>>} \cup {<<SubSeq(bytes, 1, k)>> : k \in 0..Len(bytes)}

\* mergeAndSortResults: await writeFile; the file is written while the function
\* is suspended, and the promise rejects when the sink fails
WriteFile ==
    /\ pc = "writeFile"
    /\ \/ /\ resultTxt' = <<utf8(discordMessage)>>
          /\ pc' = "written"
          /\ UNCHANGED rejection
       \/ /\ resultTxt' \in FailedWrites(discordMessage)
          /\ pc' = "rejected"
          /\ rejection' = "writeFile"
    /\ UNCHANGED <<program, defaultLocale, dirOk, files, jsonFiles, fileIdx, allData, heap, classMap,
                   classIdx, mergedResults, discordMessage, stdout, stderr, exitCode>>

\* mergeAndSortResults: the two logs after the write, and the normal end
LogResults ==
    /\ pc = "written"
    /\ stdout' = <<"Results formatted and written to result.txt",
                   <<"\n">> \o discordMessage>>
    /\ pc' = "exited"
    /\ UNCHANGED <<program, defaultLocale, dirOk, files, jsonFiles, fileIdx, allData, heap, classMap,
                   classIdx, mergedResults, discordMessage, resultTxt, rejection,
                   stderr, exitCode>>

\* the catch handler: console.error and process.exit(1)
CatchError ==
    /\ pc = "rejected"
    /\ stderr' = <<"Error merging results:", rejection>>
    /\ exitCode' = 1
    /\ pc' = "exited"
    /\ UNCHANGED <<program, defaultLocale, dirOk, files, jsonFiles, fileIdx, allData, heap, classMap,
                   classIdx, mergedResults, discordMessage, resultTxt, stdout,
                   rejection>>

Next ==
    \/ Readdir
    \/ ReadFile
    \/ GroupByClass
    \/ MergeClass
    \/ FormatReport
    \/ WriteFile
    \/ LogResults
    \/ CatchError

Spec == Init /\ [][Next]_vars

----------------------------------------------------------------------------
(* What the properties are stated over: the content of the directory, read *)
(* from `files` and not from the heap, and the results read through it.    *)

\* the entries readAllJsonFiles takes for fragments
Fragments == SelectSeq(files, LAMBDA f : endsWith(f.name, <<".", "j", "s", "o", "n">>))

RECURSIVE DataOf(_)
\* the ClassData records of these fragments, in discovery order
DataOf(fs) == IF fs = <<>> THEN <<>> ELSE Head(fs).data \o DataOf(Tail(fs))

RECURSIVE StandingsOf(_, _)
\* the standings these ClassData records report for class c, in order
StandingsOf(data, c) ==
    IF data = <<>> THEN <<>>
    ELSE (IF Head(data).carClass = c THEN Head(data).standings ELSE <<>>)
         \o StandingsOf(Tail(data), c)

\* the concatenated input of class c
ClassInput(c) == StandingsOf(DataOf(Fragments), c)

\* the entries of one driver in the input of a class
Occurrences(input, id) == SelectSeq(input, LAMBDA st : st.id = id)

\* the index of the first entry of a driver
FirstOccurrence(input, id) ==
    CHOOSE k \in 1..Len(input) :
        input[k].id = id /\ \A m \in 1..(k - 1) : input[m].id # id

RECURSIVE SumSeq(_)
SumSeq(ns) == IF ns = <<>> THEN 0 ELSE Head(ns) + SumSeq(Tail(ns))

RECURSIVE Flatten(_)
Flatten(ls) == IF ls = <<>> THEN <<>> ELSE Head(ls) \o Flatten(Tail(ls))

\* the standings of the i-th class of mergedResults, read through the heap
Ranked(i) == StandingsValue(heap, mergedResults[i].standings)

Classes == 1..Len(mergedResults)

\* a is ranked strictly above b by the two keys
Above(a, b) ==
    \/ a.championshipPoints > b.championshipPoints
    \/ /\ a.championshipPoints = b.championshipPoints
       /\ a.championshipScore > b.championshipScore

SameKeys(a, b) ==
    /\ a.championshipPoints = b.championshipPoints
    /\ a.championshipScore = b.championshipScore

RECURSIVE SplitLines(_)
\* the lines of a text
SplitLines(text) ==
    LET breaks == {i \in 1..Len(text) : text[i] = "\n"}
    IN  IF breaks = {} THEN <<text>>
        ELSE LET k == CHOOSE i \in breaks : \A j \in breaks : i <= j
             IN  <<SubSeq(text, 1, k - 1)>> \o SplitLines(SubSeq(text, k + 1, Len(text)))

Fence == <<"U+0060", "U+0060", "U+0060">>

RECURSIVE LinesWhere(_, _, _)
\* the lines inside the code fences (want = TRUE) or outside them (FALSE)
LinesWhere(lines, inside, want) ==
    IF lines = <<>> THEN <<>>
    ELSE IF Head(lines) = Fence THEN LinesWhere(Tail(lines), ~inside, want)
    ELSE (IF inside = want THEN <<Head(lines)>> ELSE <<>>)
         \o LinesWhere(Tail(lines), inside, want)

\* the table lines of the report
TableLines == LinesWhere(SplitLines(discordMessage), FALSE, TRUE)

\* the class headings of the report: the lines outside the tables, the report
\* heading and the empty lines left out
HeadingLines ==
    SelectSeq(Tail(LinesWhere(SplitLines(discordMessage), FALSE, FALSE)),
              LAMBDA l : l # <<>>)

HeadingOf(c) ==
    IF program = MainProgram THEN <<"*", "*">> \o c \o <<"*", "*">>
    ELSE <<"#", "#", " ">> \o c

\* the column widths and the separators of a row
RowWidth ==
    IF program = MainProgram
    THEN POS_WIDTH + 1 + DRIVER_WIDTH + 3 + CAR_WIDTH + 3 + POINTS_WIDTH
    ELSE POS_WIDTH_part000 + 3 + DRIVER_WIDTH_part000 + 3 + CAR_WIDTH_part000 + 3
         + POINTS_WIDTH_part000

\* the report is handed to writeFile, or the run has ended normally and
\* result.txt holds it
ReportReady == pc = "writeFile" \/ (pc = "exited" /\ exitCode = 0)

----------------------------------------------------------------------------
(* The properties.                                                         *)

\* C1. Merge under re-partition: in every merged class, every driver of the
\* class's input has exactly one record, and its championshipPoints and
\* championshipScore are the sums over all of the driver's entries, however
\* many entries and fragments they are split across.
C1_MergeSumsPointsAndScore ==
    \A i \in Classes :
        LET out   == Ranked(i)
            input == ClassInput(mergedResults[i].carClass)
        IN  \A k \in 1..Len(input) :
                LET occ  == Occurrences(input, input[k].id)
                    recs == {j \in 1..Len(out) : out[j].id = input[k].id}
                IN  /\ Cardinality(recs) = 1
                    /\ \A j \in recs :
                          /\ out[j].championshipPoints =
                                SumSeq([m \in 1..Len(occ) |-> occ[m].championshipPoints])
                          /\ out[j].championshipScore =
                                SumSeq([m \in 1..Len(occ) |-> occ[m].championshipScore])

\* a driver split across three entries, merged to 2 points and score 1
C1_Witness ==
    \E i \in Classes :
        LET out   == Ranked(i)
            input == ClassInput(mergedResults[i].carClass)
        IN  \E j \in 1..Len(out) :
                /\ Len(Occurrences(input, out[j].id)) = 3
                /\ out[j].championshipPoints = 2
                /\ out[j].championshipScore = 1

\* C2. Merge policy: for every driver of every merged class, each of the five
\* numeric fields is the sum of that field over all of the driver's entries.
C2_FiveFieldsSummed ==
    \A i \in Classes :
        LET out   == Ranked(i)
            input == ClassInput(mergedResults[i].carClass)
        IN  \A j \in 1..Len(out) :
                LET occ == Occurrences(input, out[j].id)
                IN  /\ out[j].championshipPoints =
                          SumSeq([m \in 1..Len(occ) |-> occ[m].championshipPoints])
                    /\ out[j].championshipPenalties =
                          SumSeq([m \in 1..Len(occ) |-> occ[m].championshipPenalties])
                    /\ out[j].championshipScore =
                          SumSeq([m \in 1..Len(occ) |-> occ[m].championshipScore])
                    /\ out[j].pointsAdjustment =
                          SumSeq([m \in 1..Len(occ) |-> occ[m].pointsAdjustment])
                    /\ out[j].actualPoints =
                          SumSeq([m \in 1..Len(occ) |-> occ[m].actualPoints])

\* C3. Race concatenation order: the races of a merged driver are the races
\* of all of the driver's entries, concatenated in input order, each list in
\* its own order, nothing dropped, reordered or deduplicated.
C3_RacesConcatenated ==
    \A i \in Classes :
        LET out   == Ranked(i)
            input == ClassInput(mergedResults[i].carClass)
        IN  \A j \in 1..Len(out) :
                LET occ == Occurrences(input, out[j].id)
                IN  out[j].races = Flatten([m \in 1..Len(occ) |-> occ[m].races])

\* entries with races [R1, R2], [R3] and [R1] merged to [R1, R2, R3, R1]
C3_Witness ==
    \E i \in Classes :
        LET out   == Ranked(i)
            input == ClassInput(mergedResults[i].carClass)
        IN  \E j \in 1..Len(out) :
                LET occ == Occurrences(input, out[j].id)
                IN  /\ Len(occ) = 3
                    /\ occ[1].races = <<Race(1), Race(2)>>
                    /\ occ[2].races = <<Race(3)>>
                    /\ out[j].races = <<Race(1), Race(2), Race(3), Race(1)>>

\* C4 as stated. Sort correctness: in every ranked class, for all pairs of
\* distinct entries, a is before b if and only if a has more points, or the
\* same points and a higher score.
C4_BeforeIffAbove ==
    \A i \in Classes :
        LET out == Ranked(i)
        IN  \A a, b \in 1..Len(out) :
                a # b => (a < b <=> Above(out[a], out[b]))

\* C4 as amended. In every ranked class, an entry with more points, or with
\* the same points and a higher score, is before the other.
C4_AboveIsBefore ==
    \A i \in Classes :
        LET out == Ranked(i)
        IN  \A a, b \in 1..Len(out) : Above(out[a], out[b]) => a < b

\* three ranked drivers: the first ahead on points, the second ahead of the
\* third on score alone
C4_Witness ==
    \E i \in Classes :
        LET out == Ranked(i)
        IN  /\ Len(out) = 3
            /\ out[1].championshipPoints > out[2].championshipPoints
            /\ out[2].championshipPoints = out[3].championshipPoints
            /\ out[2].championshipScore > out[3].championshipScore

\* C5. Rank stability: two merged drivers of a class with the same points and
\* the same score are ranked in the order of their first entries in the input.
C5_RankStability ==
    \A i \in Classes :
        LET out   == Ranked(i)
            input == ClassInput(mergedResults[i].carClass)
        IN  \A a, b \in 1..Len(out) :
                (a < b /\ SameKeys(out[a], out[b]))
                    => FirstOccurrence(input, out[a].id) < FirstOccurrence(input, out[b].id)

\* a tie at 1 point between a driver merged from the first and the last
\* entry and the driver of the entry in between
C5_Witness ==
    \E i \in Classes :
        LET out   == Ranked(i)
            input == ClassInput(mergedResults[i].carClass)
        IN  /\ Len(out) = 2
            /\ Len(input) = 3
            /\ input[1].id = input[3].id
            /\ SameKeys(out[1], out[2])
            /\ out[1].championshipPoints = 1
            /\ out[1].id = input[1].id

\* C6. Dense positions: a ranked class has one entry for each driver identity
\* of its input, and the entry at index i (from 0) has position i + 1.
C6_DensePositions ==
    \A i \in Classes :
        LET out   == Ranked(i)
            input == ClassInput(mergedResults[i].carClass)
        IN  /\ Len(out) = Cardinality({input[k].id : k \in 1..Len(input)})
            /\ \A a, b \in 1..Len(out) : out[a].id = out[b].id => a = b
            /\ \A a \in 1..Len(out) : out[a].position = a
            /\ {out[a].position : a \in 1..Len(out)} = 1..Len(out)

\* three entries of two drivers, ranked 1 and 2
C6_Witness ==
    \E i \in Classes :
        LET out   == Ranked(i)
            input == ClassInput(mergedResults[i].carClass)
        IN  /\ Len(input) = 3
            /\ Len(out) = 2
            /\ out[1].position = 1
            /\ out[2].position = 2
            /\ out[1].championshipPoints > out[2].championshipPoints

\* C7. Formatting width invariant: every row of every table of the report has
\* the length of the fixed column widths plus the separators.
C7_RowWidth ==
    ReportReady => \A r \in 1..Len(TableLines) : Len(TableLines[r]) = RowWidth

\* C8. All-or-nothing run: a run in which the listing or the reading or the
\* parsing of any fragment fails ends with the error reported and exit status
\* 1, and result.txt is never written; result.txt is written only after the
\* directory was listed and every fragment was read and parsed, and the
\* report then written ranks, for every class of every fragment, every driver
\* of every fragment, so it is built from no subset of the fragments; a run
\* that ends with status 0 has written result.txt.
C8_AllOrNothing ==
    LET failing == ~dirOk \/ \E k \in 1..Len(Fragments) :
                                 ~Fragments[k].readable \/ ~Fragments[k].parses
        input   == DataOf(Fragments)
    IN  /\ resultTxt # <<>> =>
              /\ ~failing
              /\ fileIdx = Len(Fragments) + 1
              /\ Len(allData) = Len(input)
              /\ {mergedResults[i].carClass : i \in Classes}
                    = {input[k].carClass : k \in 1..Len(input)}
              /\ \A i \in Classes :
                    LET all == ClassInput(mergedResults[i].carClass)
                    IN  {Ranked(i)[j].id : j \in 1..Len(Ranked(i))}
                            = {all[k].id : k \in 1..Len(all)}
        /\ (failing /\ pc \in {"rejected", "exited"}) =>
              /\ rejection \in {"readdir", "readFile", "JSON.parse"}
              /\ resultTxt = <<>>
        /\ (failing /\ pc = "exited") =>
              /\ exitCode = 1
              /\ stderr # <<>>
        /\ (pc = "exited" /\ exitCode = 0) => resultTxt # <<>>

\* the second of two fragments does not parse, the first one held standings
C8_Witness ==
    /\ pc = "exited"
    /\ exitCode = 1
    /\ Len(Fragments) = 2
    /\ Fragments[1].data # <<>>
    /\ Fragments[2].readable /\ ~Fragments[2].parses
    /\ allData # <<>>

C10_InputsReadOnly ==
    LET loaded == DataOf(SubSeq(Fragments, 1, fileIdx - 1))
    IN  pc # "readdir" /\ dirOk =>
            /\ Len(allData) = Len(loaded)
            /\ \A k \in 1..Len(allData) : ClassDataValue(heap, allData[k]) = loaded[k]

\* a finished run over two fragments that report the same driver in the same
\* class
C10_Witness ==
    /\ pc = "exited"
    /\ exitCode = 0
    /\ Len(Fragments) = 2
    /\ Len(allData) = 2
    /\ allData[1].carClass = allData[2].carClass
    /\ Len(Fragments[1].data) = 1
    /\ \E a \in 1..Len(heap.arrays[allData[1].standings]) :
          \E b \in 1..Len(heap.arrays[allData[2].standings]) :
              heap.objs[heap.arrays[allData[1].standings][a]].id
                  = heap.objs[heap.arrays[allData[2].standings][b]].id

====
